---- MODULE Spec2Model ----
(***************************************************************************)
(* Model of the zero-knowledge attestation subsystem of                    *)
(* zeroproof-travel-poc:                                                   *)
(*   - the attester service (zk-attestation-service/attester/src/main.rs): *)
(*     the program registry STORE, the key cache KEY_CACHE and the two     *)
(*     handlers register_elf and attest;                                   *)
(*   - the on-chain verifier client verify_on_chain                        *)
(*     (agent-a/src/main.rs and agent-a/mcp-server/src/lib.rs).            *)
(***************************************************************************)
EXTENDS Naturals, Integers, Sequences, FiniteSets, TLC

(***************************************************************************)
(* Bounds of the model.                                                    *)
(***************************************************************************)
\* number of register_elf calls that succeed (= number of program ids issued)
MaxPrograms == 2
\* number of attest requests in flight at a time
MaxReq == 2
\* number of attest requests in a run
MaxAttests == 3
\* number of create_tap_signature calls in a run
MaxSigns == 2
\* number of times the clock moves in a run
MaxTicks == 2
\* number of guest executions, and of requests Agent B serves, in a run
MaxRuns == 3
\* number of redaction calls on one document
MaxRedactions == 2
\* length of the input bytes a producer sends, and number of inputs sent
MaxInputLen == 3
MaxInputs == 1

(***************************************************************************)
(* Bytes and hex strings.  A byte is 0..255, a byte string a sequence of   *)
(* bytes, a text string a sequence of one-character strings.               *)
(***************************************************************************)
HexDigits == <<"0", "1", "2", "3", "4", "5", "6", "7",
               "8", "9", "a", "b", "c", "d", "e", "f">>

\* hex::encode: two lower-case digits per byte, no prefix
RECURSIVE HexEncode(_)
HexEncode(bs) ==
    IF bs = <<>> THEN <<>>
    ELSE <<HexDigits[(bs[1] \div 16) + 1], HexDigits[(bs[1] % 16) + 1]>>
         \o HexEncode(Tail(bs))

\* the digits hex::decode takes besides the lower-case ones
HexDigitsUpper == <<"0", "1", "2", "3", "4", "5", "6", "7",
                    "8", "9", "A", "B", "C", "D", "E", "F">>

\* value of one hex digit, -1 when the character is no hex digit
HexVal(c) ==
    IF \E i \in 1..16 : HexDigits[i] = c
    THEN (CHOOSE i \in 1..16 : HexDigits[i] = c) - 1
    ELSE IF \E i \in 1..16 : HexDigitsUpper[i] = c
    THEN (CHOOSE i \in 1..16 : HexDigitsUpper[i] = c) - 1
    ELSE -1

RECURSIVE HexDecodeDigits(_)
HexDecodeDigits(s) ==
    IF s = <<>> THEN <<>>
    ELSE <<HexVal(s[1]) * 16 + HexVal(s[2])>> \o HexDecodeDigits(SubSeq(s, 3, Len(s)))

\* hex::decode: Err on an odd length or on a character that is no hex digit
HexDecode(s) ==
    IF Len(s) % 2 = 1 \/ \E i \in 1..Len(s) : HexVal(s[i]) < 0
    THEN [ok |-> FALSE, bytes |-> <<>>]
    ELSE [ok |-> TRUE, bytes |-> HexDecodeDigits(s)]

\* (mutant) the prefix is left on
StripPrefixNone(s) == s

\* s.strip_prefix("0x").unwrap_or(s)
StripPrefix0x(s) ==
    IF Len(s) >= 2 /\ s[1] = "0" /\ s[2] = "x" THEN SubSeq(s, 3, Len(s)) ELSE s

(***************************************************************************)
(* The zkVM toolchain (sp1_sdk), as far as the attester uses it.           *)
(***************************************************************************)
\* the binaries a caller may upload; register_elf stores any bytes it is
\* given, so one of them is not a loadable program
Binaries == {"elfA", "elfB", "junk"}

\* whether the toolchain can load the binary; setup panics when it cannot
LoadableElf(elf) == elf # "junk"

\* one byte that tells the verifying keys of different binaries apart
VkSeed(elf) == IF elf = "elfA" THEN 10 ELSE IF elf = "elfB" THEN 171 ELSE 0

\* (mutant) a derivation whose verifying key depends on the run
SetupPerRun(elf, gen) ==
    [pk |-> <<"pk", elf>>,
     vk |-> <<"vk", IF gen % 2 = 0 THEN "junk" ELSE elf>>,
     gen |-> gen]

\* (mutant) a pair whose verifying key has not been derived yet
SetupPartial(elf, gen) == [pk |-> <<"pk", elf>>, vk |-> <<>>, gen |-> gen]

\* prover.setup(&elf): the key pair is a function of the binary; gen names
\* the derivation run that made the pair
Setup(elf, gen) == [pk |-> <<"pk", elf>>, vk |-> <<"vk", elf>>, gen |-> gen]

\* vk.bytes32(): the 32-byte fingerprint of the verifying key
VkHashBytes(vk) == [i \in 1..32 |-> VkSeed(vk[2])]

\* vk.bytes32().to_string(): "0x" and 64 hex digits
Bytes32String(vk) == <<"0", "x">> \o HexEncode(VkHashBytes(vk))

\* The first 4 bytes of proof.bytes(): the hash of the Groth16 verifier the
\* proof was wrapped for (main.rs:163-166)
VerifierHash == <<17, 182, 160, 157>>

\* the inputs a caller may send as input_bytes
Inputs == {<<7>>, <<1, 2>>}

\* what the guest program of a binary commits for an input: a function of
\* the binary and the input alone
GuestCommit(elf, input) == IF elf = "elfA" THEN input ELSE <<Len(input)>>

\* one byte standing for the binding of a proof to its public values
RECURSIVE Digest(_)
Digest(bs) == IF bs = <<>> THEN 1 ELSE (bs[1] * 3 + Digest(Tail(bs))) % 256

\* the SP1ProofWithPublicValues that prover.prove(..).groth16().run() returns
\* on Ok: public values and the wrapped proof; sound = FALSE is a proof the
\* toolchain got wrong
MakeProof(pk, input, sound) ==
    [public_values |-> GuestCommit(pk[2], input),
     bytes |-> VerifierHash \o
               <<VkSeed(pk[2]), Digest(GuestCommit(pk[2], input)),
                 IF sound THEN 1 ELSE 0>>]

\* Groth16 verification of (proof bytes, public values) against a 32-byte
\* verifying-key fingerprint: what prover.verify runs locally and what the
\* verifier contract runs on chain
GrothVerify(vkHash, publicValues, proofBytes) ==
    /\ Len(vkHash) = 32
    /\ Len(proofBytes) = 7
    /\ SubSeq(proofBytes, 1, 4) = VerifierHash
    /\ \A i \in 1..32 : vkHash[i] = proofBytes[5]
    /\ proofBytes[6] = Digest(publicValues)
    /\ proofBytes[7] = 1

\* prover.verify(&proof, &vk)
ProverVerify(proof, vk) ==
    GrothVerify(VkHashBytes(vk), proof.public_values, proof.bytes)

(***************************************************************************)
(* The attester service: state.                                            *)
(***************************************************************************)
VARIABLES
    store,          \* STORE: program_id -> ELF bytes
    issued,         \* the (program_id, binary) pairs register_elf has returned
    cache,          \* KEY_CACHE: program_id -> (pk, vk)
    cacheLock,      \* the request holding KEY_CACHE's write lock, 0 if none
    cachePoisoned,  \* KEY_CACHE's RwLock is poisoned
    setupCalls,     \* number of prover.setup runs so far
    setupLog,       \* the program ids prover.setup has been run for, in order
    storeReads,     \* number of STORE lookups so far
    raced,          \* program ids two requests asked keys for while uncached
    pc,             \* per attest request: its position in the handler
    req,            \* per attest request: the AttestRequest payload
    elf,            \* per attest request: the binary fetched from STORE
    keys,           \* per attest request: the (pk, vk) it uses
    out,            \* per attest request: what the handler returns
    abandoned       \* the requests whose caller has hung up

attVars == <<store, issued, cache, cacheLock, cachePoisoned,
             setupCalls, setupLog, storeReads, raced, pc, req, elf, keys,
             out, abandoned>>

(***************************************************************************)
(* The on-chain verifier client: state of one verify_on_chain call.        *)
(***************************************************************************)
VARIABLES
    vpc,            \* position of the call: idle, sent, replied, returned
    vargs,          \* its arguments: which client, and the three hex strings
    vreq,           \* the JSON-RPC request it posted
    vreply,         \* what came back from the RPC endpoint
    vres,           \* the Result<bool> it returned
    txCount         \* transactions the node has mined

chainVars == <<vpc, vargs, vreq, vreply, vres, txCount>>

(***************************************************************************)
(* The message signature module (agent-a/mcp-client/src/tap_signature.rs): *)
(* the clock and the random generator it reads, and the calls made so far. *)
(***************************************************************************)
VARIABLES
    tclock,         \* SystemTime::now(), in seconds since the Unix epoch
    tticks,         \* seconds the clock has advanced in this run
    rng,            \* rand::thread_rng(): the number of 32-byte draws so far
    tapLog          \* the create_tap_signature calls, with what each returned

tapVars == <<tclock, tticks, rng, tapLog>>

(***************************************************************************)
(* The signing HTTP client (agent-a/mcp-client/src/tap_http_client.rs).    *)
(***************************************************************************)
VARIABLES
    httpLog         \* the request_with_signature calls, with what each did

httpVars == <<httpLog>>

(***************************************************************************)
(* Agent B: the executions of its guest program (agent-b/program) and the  *)
(* requests its server has answered (agent-b/server/src/main.rs).          *)
(***************************************************************************)
VARIABLES
    guestLog,       \* the zkVM executions: input bytes and committed values
    serveLog        \* the /price and /book requests, with the result served

pricingVars == <<guestLog, serveLog>>

(***************************************************************************)
(* proxy_fetch: a JSON document and the redactions applied to it.          *)
(***************************************************************************)
VARIABLES
    document,       \* the serde_json::Value the caller holds
    redactLog       \* the redaction calls made on it: rule, before, after

redactVars == <<document, redactLog>>

(***************************************************************************)
(* The way of the input bytes from Agent B to the guest's input channel.   *)
(***************************************************************************)
VARIABLE
    inputLog        \* per input: the bytes produced and each form they took

inputVars == <<inputLog>>

\* the state of the agent-side modules
clientVars == <<tapVars, httpVars, pricingVars, redactVars, inputVars>>

vars == <<attVars, chainVars, clientVars>>

Ids == 1..MaxPrograms
Reqs == 1..MaxReq

\* JSON values, as far as claimed_output and verified_output need them: the
\* member is absent, it is null, or it is an object (empty, or with a price)
Absent == [json |-> "absent"]
JsonNull == [json |-> "null"]
EmptyObject == [json |-> "object"]
PriceObject(p) == [json |-> "object", price |-> p]

\* the claimed_output members a caller may send
ClaimedOutputs == {Absent, JsonNull, PriceObject(7), PriceObject(9)}

\* what a consumer reads out of public_values: the output the guest
\* committed (deserialize_output)
DecodePublicValues(pv) == PriceObject(pv[1])

NoReq == [program_id |-> 0, input_bytes |-> <<>>, verify_locally |-> FALSE,
          claimed_output |-> Absent]
NoKeys == [pk |-> <<>>, vk |-> <<>>, gen |-> 0]
NoOut == [kind |-> "none"]

\* a handler that panics: the task unwinds, the caller gets no response
Panic(msg) == [kind |-> "panic", msg |-> msg]

AttInit ==
    /\ store = <<>>
    /\ issued = {}
    /\ cache = <<>>
    /\ cacheLock = 0
    /\ cachePoisoned = FALSE
    /\ setupCalls = 0
    /\ setupLog = <<>>
    /\ storeReads = 0
    /\ raced = {}
    /\ pc = [r \in Reqs |-> "idle"]
    /\ req = [r \in Reqs |-> NoReq]
    /\ elf = [r \in Reqs |-> "none"]
    /\ keys = [r \in Reqs |-> NoKeys]
    /\ out = [r \in Reqs |-> NoOut]
    /\ abandoned = {}

(***************************************************************************)
(* register_elf                                                            *)
(***************************************************************************)
\* (mutant) an identifier an earlier call has returned already
NewProgramIdReused(st) == 1

\* Uuid::new_v4(): an identifier no earlier call has returned
NewProgramId(st) == Len(st) + 1

\* store.insert(program_id, elf) under STORE.write()
StoreInsert(st, id, bin) == [i \in (DOMAIN st) \cup {id} |-> IF i = id THEN bin ELSE st[i]]

\* the request carries a field named "elf": the binary is stored under a new
\* program id, which the response returns
RegisterElf(bin) ==
    /\ Len(store) < MaxPrograms
    /\ LET id == NewProgramId(store) IN
        /\ store' = StoreInsert(store, id, bin)
        /\ issued' = issued \cup {<<id, bin>>}
    /\ UNCHANGED <<cache, cacheLock, cachePoisoned, setupCalls, setupLog,
                   storeReads, raced, pc, req, elf, keys, out>>
    /\ UNCHANGED <<abandoned, chainVars, clientVars>>

\* no field named "elf" (or a multipart error): the handler returns AppError,
\* 400 Bad Request, before it touches STORE
RegisterNoElf ==
    UNCHANGED vars

(***************************************************************************)
(* attest                                                                  *)
(***************************************************************************)
\* (mutant) an unknown program_id silently gets a default binary
StoreGetOrDefault(st, id) ==
    IF id \in DOMAIN st THEN [found |-> TRUE, elf |-> st[id]]
    ELSE [found |-> TRUE, elf |-> "elfA"]

\* store.get(program_id): Some(elf) or None
StoreGet(st, id) ==
    IF id \in DOMAIN st THEN [found |-> TRUE, elf |-> st[id]]
    ELSE [found |-> FALSE, elf |-> "none"]

\* KEY_CACHE.write(): the lock is exclusive, it is granted when no request
\* holds it
WriteLockFree(lock) == lock = 0

\* (mutant) the cache is never consulted
CacheHitNever(c, id) == FALSE

\* cache.get(program_id) is Some
CacheHit(c, id) == id \in DOMAIN c

\* (mutant) a cache of one entry: the insert evicts what was there
CacheInsertEvicting(c, id, kp) == [i \in {id} |-> kp]

\* cache.insert(program_id, (pk, vk))
CacheInsert(c, id, kp) == [i \in (DOMAIN c) \cup {id} |-> IF i = id THEN kp ELSE c[i]]

\* (mutant) the local verification is skipped
LocalCheckSkipped(verifyLocally, prf, vk) == TRUE

\* step 6: with verify_locally the proof must pass prover.verify
LocalCheckPasses(verifyLocally, prf, vk) == ~verifyLocally \/ ProverVerify(prf, vk)

\* (mutant) the output is read out of the proof's public values
ActualOutputDecoded(claimed, prf) == DecodePublicValues(prf.public_values)

\* payload.claimed_output.unwrap_or_else(|| json!({})): Option<Value> is None
\* for a member that is absent and for one that is null
ActualOutput(claimed, prf) ==
    IF claimed \in {Absent, JsonNull} THEN EmptyObject ELSE claimed

\* the handler returns: the proof, the verifying key and the output the
\* response is built from
Returned(prf, vk, vo) ==
    [kind |-> "response", proof |-> prf, vk |-> vk, verified_output |-> vo]

\* step 7: the AttestResponse built from them, as sent to the caller
AttestResponse(o) ==
    [proof |-> HexEncode(o.proof.bytes),
     public_values |-> HexEncode(o.proof.public_values),
     vk_hash |-> Bytes32String(o.vk),
     verified_output |-> o.verified_output]

\* step 1: the request arrives and the binary is fetched from STORE; an
\* unknown program_id panics on the expect
AttestFetch(r, id, input, vl, claimed) ==
    /\ pc[r] = "idle"
    /\ IF r = 1 THEN TRUE ELSE pc[r - 1] # "idle"
    /\ storeReads < MaxAttests
    /\ req' = [req EXCEPT ![r] = [program_id |-> id, input_bytes |-> input,
                                  verify_locally |-> vl,
                                  claimed_output |-> claimed]]
    /\ storeReads' = storeReads + 1
    /\ IF StoreGet(store, id).found
       THEN /\ elf' = [elf EXCEPT ![r] = StoreGet(store, id).elf]
            /\ pc' = [pc EXCEPT ![r] = "lock"]
            /\ out' = out
            /\ raced' = IF /\ id \notin DOMAIN cache
                            /\ \E q \in Reqs : /\ pc[q] \in {"lock", "setup"}
                                                /\ req[q].program_id = id
                         THEN raced \cup {id} ELSE raced
       ELSE /\ elf' = elf
            /\ pc' = [pc EXCEPT ![r] = "failed"]
            /\ out' = [out EXCEPT ![r] = Panic("Unknown program_id")]
            /\ raced' = raced
    /\ UNCHANGED <<store, issued, cache, cacheLock, cachePoisoned,
                   setupCalls, setupLog, keys>>
    /\ UNCHANGED <<abandoned, chainVars, clientVars>>

\* step 2, KEY_CACHE.write().unwrap() and cache.get: a poisoned lock panics
\* on the unwrap; on a hit the cached pair is cloned and the lock released;
\* on a miss the request keeps the write lock for the derivation
AttestKeys(r) ==
    /\ pc[r] = "lock"
    /\ WriteLockFree(cacheLock)
    /\ IF cachePoisoned
       THEN /\ pc' = [pc EXCEPT ![r] = "failed"]
            /\ out' = [out EXCEPT ![r] = Panic("PoisonError")]
            /\ UNCHANGED <<keys, cacheLock>>
       ELSE IF CacheHit(cache, req[r].program_id)
       THEN /\ keys' = [keys EXCEPT ![r] = cache[req[r].program_id]]
            /\ pc' = [pc EXCEPT ![r] = "prove"]
            /\ UNCHANGED <<out, cacheLock>>
       ELSE /\ cacheLock' = r
            /\ pc' = [pc EXCEPT ![r] = "setup"]
            /\ UNCHANGED <<out, keys>>
    /\ UNCHANGED <<store, issued, cache, cachePoisoned, setupCalls, setupLog,
                   storeReads, raced, req, elf>>
    /\ UNCHANGED <<abandoned, chainVars, clientVars>>

\* step 2, cache miss: prover.setup(&elf) and cache.insert, all under the
\* write lock; a setup that panics unwinds through the write guard, which
\* poisons the lock
AttestSetup(r) ==
    /\ pc[r] = "setup"
    /\ cacheLock = r
    /\ setupCalls' = setupCalls + 1
    /\ setupLog' = Append(setupLog, req[r].program_id)
    /\ cacheLock' = 0
    /\ IF LoadableElf(elf[r])
       THEN LET kp == Setup(elf[r], setupCalls + 1) IN
            /\ cache' = CacheInsert(cache, req[r].program_id, kp)
            /\ keys' = [keys EXCEPT ![r] = kp]
            /\ pc' = [pc EXCEPT ![r] = "prove"]
            /\ UNCHANGED <<out, cachePoisoned>>
       ELSE /\ cachePoisoned' = TRUE
            /\ pc' = [pc EXCEPT ![r] = "failed"]
            /\ out' = [out EXCEPT ![r] = Panic("setup failed")]
            /\ UNCHANGED <<cache, keys>>
    /\ UNCHANGED <<store, issued, storeReads, raced, req, elf>>
    /\ UNCHANGED <<abandoned, chainVars, clientVars>>

\* (mutant) a failed proving run is answered with what there is
ProveOutcomeBestEffort(result, kp, input, vl, claimed) ==
    IF result = "err"
    THEN Returned([public_values |-> <<>>, bytes |-> <<>>], kp.vk, EmptyObject)
    ELSE LET prf == MakeProof(kp.pk, input, result = "sound") IN
         IF LocalCheckPasses(vl, prf, kp.vk)
         THEN Returned(prf, kp.vk, ActualOutput(claimed, prf))
         ELSE Panic("Verification failed")

\* steps 4-7: stdin.write_vec(input_bytes),
\* prover.prove(&pk, &stdin).groth16().run().expect("Proving failed"), the
\* optional prover.verify(..).expect("Verification failed"), the response
ProveOutcome(result, kp, input, vl, claimed) ==
    IF result = "err"
    THEN Panic("Proving failed")
    ELSE LET prf == MakeProof(kp.pk, input, result = "sound") IN
         IF LocalCheckPasses(vl, prf, kp.vk)
         THEN Returned(prf, kp.vk, ActualOutput(claimed, prf))
         ELSE Panic("Verification failed")

\* the rest of the handler after the key step; result is what the prover's
\* run gives: an error, a proof, or a proof that does not verify
AttestProve(r, result) ==
    /\ pc[r] = "prove"
    /\ LET o == ProveOutcome(result, keys[r], req[r].input_bytes,
                             req[r].verify_locally, req[r].claimed_output) IN
        /\ out' = [out EXCEPT ![r] = o]
        /\ pc' = [pc EXCEPT ![r] = IF o.kind = "response" THEN "done" ELSE "failed"]
    /\ UNCHANGED <<store, issued, cache, cacheLock, cachePoisoned,
                   setupCalls, setupLog, storeReads, raced, req, elf, keys>>
    /\ UNCHANGED <<abandoned, chainVars, clientVars>>

\* the caller has its answer (or its broken connection); the slot serves the
\* next request
AttestRetire(r) ==
    /\ pc[r] \in {"done", "failed"}
    /\ pc' = [pc EXCEPT ![r] = "idle"]
    /\ req' = [req EXCEPT ![r] = NoReq]
    /\ elf' = [elf EXCEPT ![r] = "none"]
    /\ keys' = [keys EXCEPT ![r] = NoKeys]
    /\ out' = [out EXCEPT ![r] = NoOut]
    /\ UNCHANGED <<store, issued, cache, cacheLock, cachePoisoned,
                   setupCalls, setupLog, storeReads, raced>>
    /\ abandoned' = abandoned \ {r}
    /\ UNCHANGED <<chainVars, clientVars>>

\* the caller of a request in flight hangs up.  The body of the handler has
\* no await point (setup, prove and verify are blocking calls), so the task
\* is not dropped: it runs on to its end and only the response is lost
AttestAbandon(r) ==
    /\ pc[r] \in {"lock", "setup", "prove"}
    /\ r \notin abandoned
    /\ abandoned' = abandoned \cup {r}
    /\ UNCHANGED <<store, issued, cache, cacheLock, cachePoisoned,
                   setupCalls, setupLog, storeReads, raced, pc, req, elf, keys,
                   out>>
    /\ UNCHANGED <<chainVars, clientVars>>

(***************************************************************************)
(* verify_on_chain: the two clients (agent-a/src/main.rs calls the SP1      *)
(* verifier, agent-a/mcp-server/src/lib.rs calls the ZeroProof contract).  *)
(***************************************************************************)
Clients == {"sp1", "zeroproof"}

\* ethers::core::utils::keccak256, as an injective tag of its argument
Keccak(x) == <<"keccak256", x>>

\* first 4 bytes of keccak256 of a function signature
Selector(sig) ==
    IF sig = "verifyProof(bytes32,bytes,bytes)" THEN <<65, 73, 60, 96>>
    ELSE IF sig = "verifyProof(bytes32,bytes,(address,bytes32,bytes,bytes32))"
    THEN <<180, 213, 68, 54>>
    ELSE <<0, 0, 0, 0>>

\* ethers::abi::Token and ethers::abi::encode: the encoding of a list of
\* typed values, told apart by the types, the values and their order
FixedBytes(b) == [t |-> "fixed_bytes", v |-> b]
Bytes(b) == [t |-> "bytes", v |-> b]
Address(a) == [t |-> "address", v |-> a]
Tuple(ts) == [t |-> "tuple", v |-> ts]
AbiEncode(tokens) == [abi |-> tokens]

\* (mutant) the length of the vk hash is not checked
DecodeArgsAnyLength(a) ==
    LET p == HexDecode(StripPrefix0x(a.proof))
        v == HexDecode(StripPrefix0x(a.public_values))
        k == HexDecode(StripPrefix0x(a.vk_hash))
    IN  IF ~p.ok \/ ~v.ok \/ ~k.ok
        THEN [ok |-> FALSE, why |-> "hex decode error"]
        ELSE [ok |-> TRUE, proof |-> p.bytes, public_values |-> v.bytes,
              vk_hash |-> k.bytes]

\* the three hex arguments decoded in the order proof, public values, vk
\* hash; the first that is no hex fails the call, then a vk hash that is not
\* 32 bytes long does
DecodeArgs(a) ==
    LET p == HexDecode(StripPrefix0x(a.proof))
        v == HexDecode(StripPrefix0x(a.public_values))
        k == HexDecode(StripPrefix0x(a.vk_hash))
    IN  IF ~p.ok \/ ~v.ok \/ ~k.ok
        THEN [ok |-> FALSE, why |-> "hex decode error"]
        ELSE IF Len(k.bytes) # 32
        THEN [ok |-> FALSE, why |-> "VK hash must be 32 bytes"]
        ELSE [ok |-> TRUE, proof |-> p.bytes, public_values |-> v.bytes,
              vk_hash |-> k.bytes]

\* the call data: selector, then the ABI-encoded arguments
CallData(client, d) ==
    IF client = "sp1"
    THEN [selector |-> <<65, 73, 60, 96>>,
          args |-> AbiEncode(<<FixedBytes(d.vk_hash), Bytes(d.public_values),
                               Bytes(d.proof)>>)]
    ELSE [selector |-> Selector("verifyProof(bytes32,bytes,(address,bytes32,bytes,bytes32))"),
          args |-> AbiEncode(<<
              FixedBytes(Keccak("sp1-zkvm")),
              Bytes(AbiEncode(<<FixedBytes(d.vk_hash), Bytes(d.public_values),
                                Bytes(d.proof)>>)),
              Tuple(<<Address(0), FixedBytes(Keccak("pricing")),
                      Bytes(d.public_values),
                      FixedBytes(Keccak(d.public_values))>>)>>)]

\* (mutant) the proof is submitted as a transaction
EthSendTransaction(to, data) ==
    [method |-> "eth_sendTransaction", to |-> to, data |-> data, block |-> "latest"]

\* the JSON-RPC payload
EthCall(to, data) ==
    [method |-> "eth_call", to |-> to, data |-> data, block |-> "latest"]

NoArgs == [client |-> "none", proof |-> <<>>, public_values |-> <<>>,
           vk_hash |-> <<>>, from |-> NoOut]
NoRequest == [method |-> "none"]
NoReply == [kind |-> "none", error |-> FALSE, result |-> "absent", by |-> "other"]
NoResult == [kind |-> "none"]
Ok(b) == [kind |-> "ok", value |-> b]
Err(why) == [kind |-> "err", why |-> why]

\* what can come back: no connection, a body that is no JSON, or a JSON
\* object with or without an error member and with a result member that is
\* absent, null or a string (the returned data)
ResultMembers == {"absent", "null", "0x", "0x01", "0x00"}
IsStr(result) == result \notin {"absent", "null"}
Json(error, result) ==
    [kind |-> "json", error |-> error, result |-> result, by |-> "other"]
NoJson(kind) == [kind |-> kind, error |-> FALSE, result |-> "absent", by |-> "other"]
Replies ==
    {NoJson("unreachable"), NoJson("not json")}
    \cup {Json(e, r) : e \in BOOLEAN, r \in ResultMembers}

\* (mutant) validity is read from the returned data
MapReplyReadsData(reply) ==
    IF reply.kind # "json" THEN Err("transport")
    ELSE IF reply.error THEN Ok(FALSE)
    ELSE IF IsStr(reply.result) THEN Ok(reply.result # "0x00")
    ELSE Ok(FALSE)

\* send().await?.json().await? and the if / else if / else on the reply
MapReply(reply) ==
    IF reply.kind # "json" THEN Err("transport")
    ELSE IF reply.error THEN Ok(FALSE)
    ELSE IF IsStr(reply.result) THEN Ok(TRUE)
    ELSE Ok(FALSE)

ChainInit ==
    /\ vpc = "idle"
    /\ vargs = NoArgs
    /\ vreq = NoRequest
    /\ vreply = NoReply
    /\ vres = NoResult
    /\ txCount = 0

\* the address the client is configured with: the contract it was written for
VerifierAddress(client) == IF client = "sp1" THEN "SP1VerifierGroth16" ELSE "ZeroProof"

\* verify_on_chain up to the post: decode the arguments, build the request;
\* src is the attest result the arguments were taken from, if any
VerifyStart(client, a, src) ==
    /\ vpc = "idle"
    /\ vargs' = [client |-> client, proof |-> a.proof,
                 public_values |-> a.public_values, vk_hash |-> a.vk_hash,
                 from |-> src]
    /\ LET d == DecodeArgs(a) IN
        IF d.ok
        THEN /\ vreq' = EthCall(VerifierAddress(client), CallData(client, d))
             /\ vpc' = "sent"
             /\ vres' = vres
        ELSE /\ vres' = Err(d.why)
             /\ vpc' = "returned"
             /\ vreq' = vreq
    /\ UNCHANGED <<vreply, txCount>>
    /\ UNCHANGED <<attVars, clientVars>>

\* the SP1 verifier contract: verifyProof(bytes32,bytes,bytes) reverts unless
\* the Groth16 proof verifies
Sp1VerifierAccepts(data) ==
    /\ data.selector = Selector("verifyProof(bytes32,bytes,bytes)")
    /\ LET ts == data.args.abi IN
        /\ Len(ts) = 3
        /\ ts[1].t = "fixed_bytes" /\ ts[2].t = "bytes" /\ ts[3].t = "bytes"
        /\ GrothVerify(ts[1].v, ts[2].v, ts[3].v)

\* the ZeroProof contract: the claim-tagged verifyProof reverts unless the
\* proof type is sp1-zkvm, the wrapped SP1 proof verifies and the claim's
\* data hash is the hash of its public data
ZeroProofAccepts(data) ==
    /\ data.selector = Selector("verifyProof(bytes32,bytes,(address,bytes32,bytes,bytes32))")
    /\ LET ts == data.args.abi IN
        /\ Len(ts) = 3
        /\ ts[1] = FixedBytes(Keccak("sp1-zkvm"))
        /\ ts[2].t = "bytes"
        /\ ts[3].t = "tuple"
        /\ LET inner == ts[2].v.abi
               claim == ts[3].v
           IN  /\ GrothVerify(inner[1].v, inner[2].v, inner[3].v)
               /\ claim[4] = FixedBytes(Keccak(claim[3].v))

\* the node runs the request against the deployed contract: an eth_call
\* changes nothing and answers with an error member on a revert and with the
\* returned data otherwise; a transaction is mined
NodeExecute ==
    /\ vpc = "sent"
    /\ LET accepts == IF vreq.to = "SP1VerifierGroth16"
                      THEN Sp1VerifierAccepts(vreq.data)
                      ELSE ZeroProofAccepts(vreq.data)
       IN  /\ vreply' = [Json(~accepts, IF accepts THEN "0x" ELSE "absent")
                            EXCEPT !.by = "contract"]
           /\ txCount' = IF vreq.method = "eth_call" THEN txCount ELSE txCount + 1
    /\ vpc' = "replied"
    /\ UNCHANGED <<vargs, vreq, vres>>
    /\ UNCHANGED <<attVars, clientVars>>

\* anything else the endpoint may do: it cannot be reached, it answers with
\* something that is no JSON, or with a JSON object of any shape
NodeAnswers(reply) ==
    /\ vpc = "sent"
    /\ vreply' = reply
    /\ vpc' = "replied"
    /\ UNCHANGED <<vargs, vreq, vres, txCount>>
    /\ UNCHANGED <<attVars, clientVars>>

\* verify_on_chain from the reply to its return value
VerifyReturn ==
    /\ vpc = "replied"
    /\ vres' = MapReply(vreply)
    /\ vpc' = "returned"
    /\ UNCHANGED <<vargs, vreq, vreply, txCount>>
    /\ UNCHANGED <<attVars, clientVars>>

(***************************************************************************)
(* create_tap_signature.  A text is the sequence of the pieces a format!   *)
(* puts one after the other: the literal parts of the format string and    *)
(* the values it interpolates.                                             *)
(***************************************************************************)
\* the private keys, key ids, algorithms and tags a TapConfig may hold; the
\* module accepts any strings (TapConfig::new, from_env, with_payer_auth)
PrivateKeys == {"pem-ed25519-A", "pem-ed25519-B", "not a key"}
Algorithms == {"Ed25519", "ROT13"}
Tags == {"agent-browser-auth", "agent-payer-auth"}
TapConfigs ==
    [private_key_pem : PrivateKeys, key_id : {"agent-key-id"},
     algorithm : Algorithms, tag : Tags]

\* the (authority, path) pairs a caller signs for (parse_url_components)
Targets == {<<"example.com", "/api/product?id=123">>}

\* the ways the clock moves between calls: it advances, or it is set back
ClockSteps == {1, -1}

\* the validity window in seconds
ValidityWindow == 480

\* (mutant) the window taken as 8, the minutes
ExpiresAfterMinutes(now) == now + 8

\* let expires = now + 480
ExpiresAfter(now) == now + ValidityWindow

\* sha2::Sha256 and BASE64.encode, as injective tags of their arguments
Sha256(message) == <<"sha256", message>>
Base64Encode(bytes) == <<"base64", bytes>>

\* rng.fill(&mut random_bytes): 32 bytes of the thread's CSPRNG, named by the
\* number of the draw; no two draws give the same 32 bytes
ThreadRngFill(draws) == draws + 1

\* (mutant) a generator seeded with the same value in every call
GenerateNonceReseeded(draws) == ToString(1)

\* generate_nonce: the base64 text of the 32 bytes drawn
GenerateNonce(draws) == ToString(ThreadRngFill(draws))

\* (mutant) the key goes into the digest
SignMessageKeyed(private_key_pem, message) == Sha256(<<private_key_pem, message>>)

\* sign_message: the SHA-256 digest of the message; private_key_pem is not
\* read
SignMessage(private_key_pem, message) == Sha256(message)

\* the first format!: the signature base string
SignatureBase(authority, path, created, expires, config, nonce) ==
    <<"\"@authority\": ", authority, "\n",
      "\"@path\": ", path, "\n",
      "\"@signature-params\": ",
      "sig2=(\"@authority\" \"@path\");created=", ToString(created),
      ";expires=", ToString(expires),
      ";keyId=\"", config.key_id,
      "\";alg=\"", config.algorithm,
      "\";nonce=\"", nonce,
      "\";tag=\"", config.tag, "\"">>

\* (mutant) a header that leaves the tag out
SignatureInputNoTag(created, expires, config, nonce) ==
    <<"sig2=(\"@authority\" \"@path\");created=", ToString(created),
      ";expires=", ToString(expires),
      ";keyId=\"", config.key_id,
      "\";alg=\"", config.algorithm,
      "\";nonce=\"", nonce, "\"">>

\* the second format!: the Signature-Input header
SignatureInput(created, expires, config, nonce) ==
    <<"sig2=(\"@authority\" \"@path\");created=", ToString(created),
      ";expires=", ToString(expires),
      ";keyId=\"", config.key_id,
      "\";alg=\"", config.algorithm,
      "\";nonce=\"", nonce,
      "\";tag=\"", config.tag, "\"">>

\* the third format!: the Signature header, "sig2=:<base64>: "
SignatureHeader(signature_b64) == <<"sig2=:", signature_b64, ": ">>

\* what one call returns, with the base string it signed and the nonce it
\* drew
TapOk(base, nonce, created, expires, headers) ==
    [kind |-> "ok", signature_base |-> base, nonce |-> nonce,
     created |-> created, expires |-> expires, headers |-> headers]
TapErr(why) == [kind |-> "err", why |-> why]

\* create_tap_signature from the clock reading to its return value
TapSignatureResult(config, authority, path, now, draws) ==
    IF now < 0
    THEN TapErr("Failed to get current time")
    ELSE LET created == now
             expires == ExpiresAfter(now)
             nonce == GenerateNonce(draws)
             base == SignatureBase(authority, path, created, expires, config, nonce)
             signature_bytes == SignMessage(config.private_key_pem, base)
         IN  TapOk(base, nonce, created, expires,
                   [signature_input |-> SignatureInput(created, expires, config, nonce),
                    signature |-> SignatureHeader(Base64Encode(signature_bytes)),
                    key_id |-> config.key_id])

TapInit ==
    /\ tclock = 0
    /\ tticks = 0
    /\ rng = 0
    /\ tapLog = <<>>

\* one call of create_tap_signature
CreateTapSignature(config, authority, path) ==
    /\ Len(tapLog) < MaxSigns
    /\ LET res == TapSignatureResult(config, authority, path, tclock, rng) IN
        /\ tapLog' = Append(tapLog, [config |-> config, authority |-> authority,
                                     path |-> path, now |-> tclock, result |-> res])
        /\ rng' = IF res.kind = "ok" THEN rng + 1 ELSE rng
    /\ UNCHANGED <<tclock, tticks>>
    /\ UNCHANGED <<attVars, chainVars, httpVars, pricingVars, redactVars, inputVars>>

\* the system clock moves between two calls
ClockMoves(d) ==
    /\ tticks < MaxTicks
    /\ tticks' = tticks + 1
    /\ tclock' = tclock + d
    /\ UNCHANGED <<rng, tapLog>>
    /\ UNCHANGED <<attVars, chainVars, httpVars, pricingVars, redactVars, inputVars>>

NextTap ==
    \/ \E config \in TapConfigs, t \in Targets : CreateTapSignature(config, t[1], t[2])
    \/ \E d \in ClockSteps : ClockMoves(d)

(***************************************************************************)
(* request_with_signature                                                  *)
(***************************************************************************)
\* the URLs a caller may ask for, and parse_url_components on them: Err for
\* a string that is no URL, else the host and the path with its query
Urls == {"https://example.com/api/product?id=123", "not a url"}
ParseUrlComponents(url) ==
    IF url = "https://example.com/api/product?id=123"
    THEN [ok |-> TRUE, authority |-> "example.com", path |-> "/api/product?id=123"]
    ELSE [ok |-> FALSE, authority |-> "", path |-> ""]

\* the methods a caller may name; the match knows GET, POST, PUT and DELETE
Methods == {"GET", "POST", "PATCH"}
SupportedMethod(method) == method \in {"GET", "POST", "PUT", "DELETE"}

\* tap_config: None, or Some(config)
NoTapConfig == [none |-> TRUE]
HttpTapConfigs ==
    {NoTapConfig}
    \cup {[private_key_pem |-> "pem-ed25519-A", key_id |-> "agent-key-id",
           algorithm |-> "Ed25519", tag |-> t] : t \in Tags}

\* whether the server can be reached when the request is sent
Networks == {"up", "down"}

\* (mutant) the key id is attached whether or not signing worked
TapHeadersKeyIdAlways(config, sig) ==
    IF sig.kind = "ok"
    THEN [signature_input |-> sig.headers.signature_input,
          signature |-> sig.headers.signature,
          key_id |-> sig.headers.key_id]
    ELSE [key_id |-> config.key_id]

\* the headers the match on create_tap_signature's result attaches: the
\* three of them on Ok, none on Err
TapHeaders(config, sig) ==
    IF sig.kind = "ok"
    THEN [signature_input |-> sig.headers.signature_input,
          signature |-> sig.headers.signature,
          key_id |-> sig.headers.key_id]
    ELSE <<>>

\* the line the match prints
TapLogLine(sig) ==
    IF sig.kind = "ok" THEN "[TAP] Added signature headers to request"
    ELSE "[TAP WARN] Failed to create signature"

\* one call, from parse_url_components to its return value
HttpOutcome(method, url, config, net, now, draws) ==
    LET parsed == ParseUrlComponents(url)
        sig == TapSignatureResult(config, parsed.authority, parsed.path, now, draws)
    IN  IF ~parsed.ok
        THEN [sent |-> FALSE, signing |-> "none", headers |-> <<>>, log |-> <<>>,
              result |-> "Err: Failed to parse URL"]
        ELSE IF ~SupportedMethod(method)
        THEN [sent |-> FALSE, signing |-> "none", headers |-> <<>>, log |-> <<>>,
              result |-> "Err: Unsupported HTTP method"]
        ELSE LET signing == IF config = NoTapConfig THEN "none" ELSE sig.kind
                 headers == IF config = NoTapConfig THEN <<>>
                            ELSE TapHeaders(config, sig)
                 line == IF config = NoTapConfig
                         THEN "[TAP] No TAP config available, sending unsigned request"
                         ELSE TapLogLine(sig)
             IN  [sent |-> TRUE, signing |-> signing, headers |-> headers,
                  log |-> <<line>>,
                  result |-> IF net = "up" THEN "Ok"
                             ELSE "Err: HTTP request failed"]

HttpInit == httpLog = <<>>

RequestWithSignature(method, url, config, net) ==
    /\ Len(httpLog) < MaxSigns
    /\ LET o == HttpOutcome(method, url, config, net, tclock, rng) IN
        /\ httpLog' = Append(httpLog, [method |-> method, url |-> url,
                                       config |-> config, now |-> tclock,
                                       outcome |-> o])
        /\ rng' = IF o.signing = "ok" THEN rng + 1 ELSE rng
    /\ UNCHANGED <<tclock, tticks, tapLog>>
    /\ UNCHANGED <<attVars, chainVars, pricingVars, redactVars, inputVars>>

NextHttp ==
    \/ \E method \in Methods, url \in Urls, config \in HttpTapConfigs,
          net \in Networks : RequestWithSignature(method, url, config, net)
    \/ \E d \in ClockSteps : ClockMoves(d)

(***************************************************************************)
(* pricing-core (handle_call), the guest program and Agent B's server.     *)
(* A string is given by a name for its text and its length in bytes.       *)
(***************************************************************************)
Str(text, len) == [text |-> text, len |-> len]

\* the requests a caller may send
PriceRequests ==
    {[from |-> Str("NYC", 3), to |-> Str("LON", 3), vip |-> TRUE],
     [from |-> Str("LON", 3), to |-> Str("NYC", 3), vip |-> FALSE],
     [from |-> Str("SFO", 3), to |-> Str("NYC", 3), vip |-> TRUE]}
BookRequests ==
    {[from |-> Str("NYC", 3), to |-> Str("LON", 3),
      passenger_name |-> Str("Ann", 3), passenger_email |-> Str("a@x.io", 6)],
     [from |-> Str("NYC", 3), to |-> Str("LON", 3),
      passenger_name |-> Str("a name of 70000 bytes", 70000),
      passenger_email |-> Str("a@x.io", 6)]}

\* RpcCall
GetPrice(r) == [call |-> "GetPrice", req |-> r]
BookFlight(r) == [call |-> "BookFlight", req |-> r]
RpcCalls == {GetPrice(r) : r \in PriceRequests} \cup {BookFlight(r) : r \in BookRequests}

\* pricing::handle; the f64 price is given in hundredths (base * 0.85 for
\* vip)
PricingHandle(r) ==
    LET base == IF r.from.text = "NYC" /\ r.to.text = "LON" THEN 680
                ELSE IF r.from.text = "LON" /\ r.to.text = "NYC" THEN 675
                ELSE 450
    IN  [price |-> IF r.vip THEN base * 85 ELSE base * 100]

\* a number as hex digits, lowest first
RECURSIVE ToHexLE(_)
ToHexLE(n) == IF n = 0 THEN <<>> ELSE <<n % 16>> \o ToHexLE(n \div 16)

\* the digits of a number times k, lowest first
RECURSIVE MulHexLE(_, _, _)
MulHexLE(ds, k, carry) ==
    IF ds = <<>> THEN ToHexLE(carry)
    ELSE <<(ds[1] * k + carry) % 16>>
         \o MulHexLE(Tail(ds), k, (ds[1] * k + carry) \div 16)

\* the hex digits of a usize: 8 on the guest's riscv32im target, 16 on the
\* server's 64-bit host
UsizeHexDigits(target) == IF target = "riscv32im" THEN 8 ELSE 16

\* n * k in usize arithmetic of a release build: the product is cut to the
\* width of usize
UsizeMul(target, n, k) ==
    LET full == MulHexLE(ToHexLE(n), k, 0)
    IN  SubSeq(full, 1, IF Len(full) < UsizeHexDigits(target)
                        THEN Len(full) ELSE UsizeHexDigits(target))

\* format!("{:0wX}"): upper-case hex, highest digit first, no leading zeros
\* but padded with zeros to w digits
RECURSIVE FormatUpperHex(_, _)
FormatUpperHex(ds, w) ==
    IF ds # <<>> /\ ds[Len(ds)] = 0 THEN FormatUpperHex(SubSeq(ds, 1, Len(ds) - 1), w)
    ELSE IF Len(ds) < w THEN <<"0">> \o FormatUpperHex(ds, w - 1)
    ELSE [i \in 1..Len(ds) |-> HexDigitsUpper[ds[Len(ds) + 1 - i] + 1]]

\* booking::handle, compiled for target
BookingHandle(r, target) ==
    LET len == r.from.len + 1 + r.to.len + 1 + r.passenger_name.len + 1
               + r.passenger_email.len
    IN  [booking_id |-> <<"BK">> \o FormatUpperHex(UsizeMul(target, len, 12345), 8),
         status |-> "confirmed",
         confirmation_code |->
             <<"CONF">> \o FormatUpperHex(UsizeMul(target, len, 67890), 6)]

\* RpcResult
Price(resp) == [result |-> "Price", resp |-> resp]
Booking(resp) == [result |-> "Booking", resp |-> resp]

\* handle_call, compiled for target
HandleCall(c, target) ==
    IF c.call = "GetPrice" THEN Price(PricingHandle(c.req))
    ELSE Booking(BookingHandle(c.req, target))

\* bincode::serialize / sp1_zkvm::io::read, io::commit: an encoding that is
\* told apart by what it encodes
Bincode(v) == <<"bincode", v>>
FromBincode(bytes) == bytes[2]

\* (mutant) a guest that stamps its result with the number of the execution
GuestMainCounting(input_bytes, now, draws, earlier) ==
    Bincode([computed |-> HandleCall(FromBincode(input_bytes), "riscv32im"),
             seq |-> earlier])

\* the guest's main: read the call, handle it, commit the result.  now,
\* draws and earlier are the clock, the random generator and the number of
\* earlier executions of the machine it runs on; the guest reads none
GuestMain(input_bytes, now, draws, earlier) ==
    Bincode(HandleCall(FromBincode(input_bytes), "riscv32im"))

\* BOOKING_API_URL: not set, or the URL of a booking service
BookingApiUrls == {"none", "https://booking.example"}

\* what call_booking_api may give: an error, or the booking the service made
ApiReplies ==
    {[ok |-> FALSE],
     [ok |-> TRUE, resp |-> [booking_id |-> <<"BK", "-", "L", "I", "V", "E">>,
                             status |-> "pending",
                             confirmation_code |-> <<"Q", "7">>]]}

\* price_handler
PriceHandler(r) == Price(PricingHandle(r))

\* book_handler: with BOOKING_API_URL set, the booking service's answer, and
\* the core's result when the service fails; the core's result otherwise
BookHandler(r, api_url, reply) ==
    IF api_url # "none" /\ reply.ok THEN Booking(reply.resp)
    ELSE Booking(BookingHandle(r, "x86_64"))

PricingInit ==
    /\ guestLog = <<>>
    /\ serveLog = <<>>

\* one execution of the guest program in the zkVM
GuestExecute(c) ==
    /\ Len(guestLog) < MaxRuns
    /\ guestLog' = Append(guestLog,
          [input |-> Bincode(c), now |-> tclock, earlier |-> Len(guestLog),
           committed |-> GuestMain(Bincode(c), tclock, rng, Len(guestLog))])
    /\ UNCHANGED <<serveLog, tapVars, httpVars>>
    /\ UNCHANGED <<attVars, chainVars, redactVars, inputVars>>

\* POST /price
ServePrice(r) ==
    /\ Len(serveLog) < MaxRuns
    /\ serveLog' = Append(serveLog, [call |-> GetPrice(r), served |-> PriceHandler(r)])
    /\ UNCHANGED <<guestLog, tapVars, httpVars>>
    /\ UNCHANGED <<attVars, chainVars, redactVars, inputVars>>

\* POST /book
ServeBook(r, api_url, reply) ==
    /\ Len(serveLog) < MaxRuns
    /\ serveLog' = Append(serveLog, [call |-> BookFlight(r),
                                     served |-> BookHandler(r, api_url, reply)])
    /\ UNCHANGED <<guestLog, tapVars, httpVars>>
    /\ UNCHANGED <<attVars, chainVars, redactVars, inputVars>>

\* the guest executes, at any time, any call
NextGuest ==
    \/ \E c \in RpcCalls : GuestExecute(c)
    \/ \E d \in ClockSteps : ClockMoves(d)

\* Agent B serves requests
NextServe ==
    \/ \E r \in PriceRequests : ServePrice(r)
    \/ \E r \in BookRequests, api_url \in BookingApiUrls, reply \in ApiReplies :
          ServeBook(r, api_url, reply)

(***************************************************************************)
(* proxy_fetch: redact_at_path and apply_redactions.  A serde_json::Value  *)
(* is a record tagged with its kind; an object is a function from its keys *)
(* to values; keys and strings are sequences of characters.                *)
(***************************************************************************)
VNull == [t |-> "null"]
VString(s) == [t |-> "string", s |-> s]
VArray(a) == [t |-> "array", a |-> a]
VObject(m) == [t |-> "object", m |-> m]

\* json!("****")
Masked == VString(<<"*", "*", "*", "*">>)

John == VString(<<"J">>)

\* the objects with keys among names and members among vals
Objects(names, vals) == UNION {[K -> vals] : K \in SUBSET names}

Keys == {<<"a">>, <<"b">>}

\* values below the root: strings, an array, objects of strings
Members ==
    {John, Masked, VArray(<<VObject(<<"a">> :> John)>>)}
    \cup {VObject(m) : m \in Objects(Keys, {John, Masked})}

\* the documents a caller may hold: objects of two levels, a root that is
\* no object, an object of three levels, an object with the empty key
Documents ==
    {VObject(m) : m \in Objects(Keys, Members)}
    \cup {John,
          VObject(<<"a">> :> VObject(<<"b">> :> VObject(<<"a">> :> John @@ <<"b">> :> John))),
          VObject(<<>> :> VObject(<<>> :> John) @@ <<"a">> :> John)}

\* the dot paths a caller may give: a, b, c, a.b, b.a, a.c, a.b.a, c.a.b,
\* the empty path, "a." and "."
Paths ==
    {<<"a">>, <<"b">>, <<"c">>, <<"a", ".", "b">>, <<"b", ".", "a">>,
     <<"a", ".", "c">>, <<"a", ".", "b", ".", "a">>, <<"c", ".", "a", ".", "b">>,
     <<>>, <<"a", ".">>, <<".">>}

\* path.split('.')
RECURSIVE Split(_)
Split(path) ==
    IF \A i \in DOMAIN path : path[i] # "." THEN <<path>>
    ELSE LET dot == CHOOSE i \in DOMAIN path :
                        path[i] = "." /\ \A j \in 1..(i - 1) : path[j] # "."
         IN  <<SubSeq(path, 1, dot - 1)>> \o Split(SubSeq(path, dot + 1, Len(path)))

\* (mutant) the mask is put in front of a string that is there
RedactLastPrepending(m, part) ==
    IF part \in DOMAIN m
    THEN [m EXCEPT ![part] = IF @.t = "string" THEN VString(Masked.s \o @.s)
                             ELSE Masked]
    ELSE m

\* (mutant) the mask is inserted without looking for the key
RedactLastInserting(m, part) ==
    [k \in DOMAIN m \cup {part} |-> IF k = part THEN Masked ELSE m[k]]

\* the last component: if obj.contains_key(part) { obj.insert(part, "****") }
RedactLast(m, part) ==
    IF part \in DOMAIN m THEN [m EXCEPT ![part] = Masked] ELSE m

\* the loop of redact_at_path from component parts[1] on, at value current
RECURSIVE RedactFrom(_, _)
RedactFrom(current, parts) ==
    IF Len(parts) = 1
    THEN IF current.t = "object" THEN VObject(RedactLast(current.m, parts[1]))
         ELSE current
    ELSE IF current.t # "object" THEN current
    ELSE IF parts[1] \notin DOMAIN current.m THEN current
    ELSE VObject([current.m EXCEPT ![parts[1]] = RedactFrom(@, Tail(parts))])

\* redact_at_path
RedactAtPath(value, path) ==
    IF Split(path) = <<>> THEN value ELSE RedactFrom(value, Split(path))

PathKey == <<"p", "a", "t", "h">>

\* a redaction rule {"path": path}
Rule(path) == VObject(PathKey :> VString(path))

\* the rule lists a caller may give; a rule may lack "path" or have one that
\* is no string
RuleLists ==
    {<<>>,
     <<Rule(<<"a">>)>>,
     <<Rule(<<"a">>), Rule(<<"a", ".", "b">>)>>,
     <<Rule(<<"a", ".", "b">>), Rule(<<"a">>)>>,
     <<Rule(<<"a", ".", "b">>), Rule(<<"b">>)>>,
     <<VObject(<<>>), Rule(<<"b", ".", "a">>)>>,
     <<VObject(PathKey :> VNull), John>>}

\* apply_redactions
RECURSIVE ApplyRedactions(_, _)
ApplyRedactions(value, redactions) ==
    IF redactions = <<>> THEN value
    ELSE LET redaction == Head(redactions)
             hasPath == /\ redaction.t = "object"
                        /\ PathKey \in DOMAIN redaction.m
                        /\ redaction.m[PathKey].t = "string"
         IN  ApplyRedactions(IF hasPath
                             THEN RedactAtPath(value, redaction.m[PathKey].s)
                             ELSE value,
                             Tail(redactions))

RedactInit ==
    /\ document = VNull
    /\ redactLog = <<>>

\* the caller receives a document
LoadDocument(doc) ==
    /\ document = VNull
    /\ redactLog = <<>>
    /\ document' = doc
    /\ UNCHANGED <<redactLog, tapVars, httpVars, pricingVars>>
    /\ UNCHANGED <<attVars, chainVars, inputVars>>

\* redact_at_path(&mut document, path)
RedactDocument(path) ==
    /\ document # VNull
    /\ Len(redactLog) < MaxRedactions
    /\ document' = RedactAtPath(document, path)
    /\ redactLog' = Append(redactLog,
          [call |-> "redact_at_path", arg |-> path,
           before |-> document, after |-> document'])
    /\ UNCHANGED <<tapVars, httpVars, pricingVars>>
    /\ UNCHANGED <<attVars, chainVars, inputVars>>

\* apply_redactions(&mut document, &redactions)
ApplyToDocument(redactions) ==
    /\ document # VNull
    /\ Len(redactLog) < MaxRedactions
    /\ document' = ApplyRedactions(document, redactions)
    /\ redactLog' = Append(redactLog,
          [call |-> "apply_redactions", arg |-> redactions,
           before |-> document, after |-> document'])
    /\ UNCHANGED <<tapVars, httpVars, pricingVars>>
    /\ UNCHANGED <<attVars, chainVars, inputVars>>

NextRedact ==
    \/ \E doc \in Documents : LoadDocument(doc)
    \/ \E path \in Paths : RedactDocument(path)
    \/ \E redactions \in RuleLists : ApplyToDocument(redactions)

(***************************************************************************)
(* zk-protocol's byte helpers, format_zk_input, the request_attestation    *)
(* tool and attest's stdin.                                                *)
(***************************************************************************)
VNumber(n) == [t |-> "number", n |-> n]

\* the byte values a producer may send
ByteSamples == {0, 1, 127, 128, 255}

\* the byte strings a producer may send
InputBytes == UNION {[1..n -> ByteSamples] : n \in 0..MaxInputLen}

\* bytes_to_json_array; serde's serialisation of a Vec<u8> is the same array
BytesToJsonArray(bytes) == VArray([i \in DOMAIN bytes |-> VNumber(bytes[i])])

\* (mutant) the numbers are cut to seven bits
FilterMapAsU7(arr) ==
    LET RECURSIVE Collect(_)
        Collect(vs) ==
            IF vs = <<>> THEN <<>>
            ELSE (IF vs[1].t = "number" /\ vs[1].n >= 0 THEN <<vs[1].n % 128>> ELSE <<>>)
                 \o Collect(Tail(vs))
    IN  Collect(arr)

\* arr.iter().filter_map(|v| v.as_u64().map(|n| n as u8)).collect(): what is
\* no non-negative integer is dropped, the others are cut to eight bits
FilterMapAsU8(arr) ==
    LET RECURSIVE Collect(_)
        Collect(vs) ==
            IF vs = <<>> THEN <<>>
            ELSE (IF vs[1].t = "number" /\ vs[1].n >= 0 THEN <<vs[1].n % 256>> ELSE <<>>)
                 \o Collect(Tail(vs))
    IN  Collect(arr)

\* json_array_to_bytes: None for a value that is no array
JsonArrayToBytes(value) ==
    IF value.t = "array" THEN [some |-> TRUE, bytes |-> FilterMapAsU8(value.a)]
    ELSE [some |-> FALSE]

InputBytesKey == <<"input_bytes">>

\* Agent B's zk_input_handler: Json(ZkInputResponse { input_bytes })
ZkInputResponse(bytes) == VObject(InputBytesKey :> BytesToJsonArray(bytes))

\* format_zk_input: the array of the response, as "0x" and hex digits
FormatZkInput(response) ==
    IF InputBytesKey \in DOMAIN response.m /\ response.m[InputBytesKey].t = "array"
    THEN [ok |-> TRUE,
          input_bytes |-> <<"0", "x">> \o HexEncode(FilterMapAsU8(response.m[InputBytesKey].a))]
    ELSE [ok |-> FALSE]

\* the request_attestation tool: hex::decode(input_hex.strip_prefix("0x")..)
ToolInputBytes(input_hex) == HexDecode(StripPrefix0x(input_hex))

\* serde's Vec<u8> from the JSON of the AttestRequest: every element must
\* be a number in 0..255
PayloadInputBytes(value) ==
    IF /\ value.t = "array"
       /\ \A i \in DOMAIN value.a : value.a[i].t = "number" /\ value.a[i].n \in 0..255
    THEN [ok |-> TRUE, bytes |-> [i \in DOMAIN value.a |-> value.a[i].n]]
    ELSE [ok |-> FALSE, bytes |-> <<>>]

\* SP1Stdin::new() and stdin.write_vec(bytes): the buffer holds the vectors
\* written, in order
StdinNew == <<>>
StdinWriteVec(stdin, bytes) == Append(stdin, bytes)

InputInit == inputLog = <<>>

\* input bytes go from Agent B's /zk-input through Agent A to the attester
CarryInput(bytes) ==
    /\ Len(inputLog) < MaxInputs
    /\ LET formatted == FormatZkInput(ZkInputResponse(bytes))
           decoded == ToolInputBytes(formatted.input_bytes)
           payload == PayloadInputBytes(BytesToJsonArray(decoded.bytes))
       IN  inputLog' = Append(inputLog,
              [produced |-> bytes,
               back |-> JsonArrayToBytes(BytesToJsonArray(bytes)),
               input_hex |-> formatted.input_bytes,
               decoded |-> decoded.ok,
               payload |-> payload,
               stdin |-> StdinWriteVec(StdinNew, payload.bytes)])
    /\ UNCHANGED <<tapVars, httpVars, pricingVars, redactVars>>
    /\ UNCHANGED <<attVars, chainVars>>

NextInput == \E bytes \in InputBytes : CarryInput(bytes)

ProveResults == {"err", "sound", "unsound"}

Init ==
    /\ AttInit /\ ChainInit /\ TapInit /\ HttpInit
    /\ PricingInit /\ RedactInit /\ InputInit

SpecInput == Init /\ [][NextInput]_vars

SpecRedact == Init /\ [][NextRedact]_vars

SpecGuest == Init /\ [][NextGuest]_vars

SpecServe == Init /\ [][NextServe]_vars

SpecHttp == Init /\ [][NextHttp]_vars

SpecTap == Init /\ [][NextTap]_vars

Next ==
    \/ \E bin \in Binaries : RegisterElf(bin)
    \/ RegisterNoElf
    \/ \E r \in Reqs, id \in Ids, vl \in BOOLEAN :
          AttestFetch(r, id, <<7>>, vl, PriceObject(7))
    \/ \E r \in Reqs : AttestKeys(r)
    \/ \E r \in Reqs : AttestSetup(r)
    \/ \E r \in Reqs, result \in ProveResults : AttestProve(r, result)

Spec == Init /\ [][Next]_vars

\* the same service with request slots that are used again: MaxReq bounds
\* the requests in flight, not the requests of a run
NextBusy ==
    \/ Next
    \/ \E r \in Reqs : AttestRetire(r)

SpecBusy == Init /\ [][NextBusy]_vars

\* #[tokio::main]: handlers run on the runtime's worker threads.  The body
\* of attest has no await point, so a request in flight keeps its worker
\* until the handler returns; Reqs are the workers
WorkerFree == \E r \in Reqs : pc[r] \in {"idle", "done", "failed"}

\* register_elf, run by a worker that is free
RegisterOnWorker(bin) ==
    /\ WorkerFree
    /\ RegisterElf(bin)

\* the service on its runtime
NextRuntime ==
    \/ \E bin \in Binaries : RegisterOnWorker(bin)
    \/ \E r \in Reqs, id \in Ids, vl \in BOOLEAN :
          AttestFetch(r, id, <<7>>, vl, PriceObject(7))
    \/ \E r \in Reqs : AttestKeys(r)
    \/ \E r \in Reqs : AttestSetup(r)
    \/ \E r \in Reqs, result \in ProveResults : AttestProve(r, result)
    \/ \E r \in Reqs : AttestRetire(r)

SpecRuntime == Init /\ [][NextRuntime]_vars

\* the service with callers that may hang up on a request in flight
NextAbandon ==
    \/ Next
    \/ \E r \in Reqs : AttestAbandon(r)

SpecAbandon == Init /\ [][NextAbandon]_vars

\* the service with callers that send any claimed_output
NextEcho ==
    \/ \E bin \in Binaries : RegisterElf(bin)
    \/ RegisterNoElf
    \/ \E r \in Reqs, id \in Ids, vl \in BOOLEAN, claimed \in ClaimedOutputs :
          AttestFetch(r, id, <<7>>, vl, claimed)
    \/ \E r \in Reqs : AttestKeys(r)
    \/ \E r \in Reqs : AttestSetup(r)
    \/ \E r \in Reqs, result \in ProveResults : AttestProve(r, result)

SpecEcho == Init /\ [][NextEcho]_vars

\* what attest can return: for every loadable binary and input, a proof
\* that verifies and one that does not
AttestResults ==
    {Returned(MakeProof(Setup(e, 1).pk, i, s), Setup(e, 1).vk, EmptyObject) :
        e \in {b \in Binaries : LoadableElf(b)}, i \in Inputs, s \in BOOLEAN}

\* other arguments a caller may pass: one response with a 0x before the
\* proof, without the 0x before the vk hash, with a proof of odd length,
\* with public values that are no hex, with a vk hash of 31 bytes, with
\* other public values, with the vk hash of another program, with a vk hash
\* that is no hex, with a vk hash of 33 bytes, with upper-case public values
OtherArgs ==
    LET b == AttestResponse(Returned(MakeProof(Setup("elfA", 1).pk, <<7>>, TRUE),
                                     Setup("elfA", 1).vk, EmptyObject))
    IN  {[b EXCEPT !.proof = <<"0", "x">> \o @],
         [b EXCEPT !.vk_hash = StripPrefix0x(@)],
         [b EXCEPT !.proof = Tail(@)],
         [b EXCEPT !.public_values = <<"z", "z">>],
         [b EXCEPT !.vk_hash = SubSeq(@, 1, 64)],
         [b EXCEPT !.public_values = <<"0", "0">>],
         [b EXCEPT !.vk_hash = Bytes32String(Setup("elfB", 1).vk)],
         [b EXCEPT !.vk_hash = <<"0", "x", "g", "g">>],
         [b EXCEPT !.vk_hash = @ \o <<"0", "0">>],
         [b EXCEPT !.public_values = <<"0", "A">>]}

\* one verify_on_chain call, by either client, on any of these arguments,
\* against any behaviour of the RPC endpoint
NextChain ==
    \/ \E c \in Clients, o \in AttestResults : VerifyStart(c, AttestResponse(o), o)
    \/ \E c \in Clients, a \in OtherArgs : VerifyStart(c, a, NoOut)
    \/ NodeExecute
    \/ \E reply \in Replies : NodeAnswers(reply)
    \/ VerifyReturn

SpecChain == Init /\ [][NextChain]_vars

(***************************************************************************)
(* Properties of the attester service.                                     *)
(***************************************************************************)
\* the request has left the key step (or never reached it)
PastKeyStep(r) == pc[r] \in {"prove", "done", "failed"}

\* the registry holds every binary under the id register_elf returned for it
RegistryIntact == \A p \in issued : p[1] \in DOMAIN store /\ store[p[1]] = p[2]

\* C1: when two attest requests for the same registered, not yet cached
\* program_id ran concurrently and both have left the key step, the registry
\* and the key cache are intact (the cache lock is not poisoned), the cache
\* holds an entry for that program_id and both requests got the key pair of
\* that entry.
C1_ConcurrentFirstUse ==
    \A id \in raced :
        (\A r \in Reqs : req[r].program_id = id => PastKeyStep(r))
        => /\ RegistryIntact
           /\ ~cachePoisoned
           /\ id \in DOMAIN cache
           /\ \A r \in Reqs :
                 (req[r].program_id = id /\ elf[r] # "none") => keys[r] = cache[id]

\* C2: every binary register_elf has returned an id for is still stored,
\* unchanged, under that id, and every lookup of that id by attest got it.
C2_RegistryRoundTrip ==
    \A p \in issued :
        /\ p[1] \in DOMAIN store
        /\ store[p[1]] = p[2]
        /\ \A r \in Reqs :
              (req[r].program_id = p[1] /\ elf[r] # "none") => elf[r] = p[2]

\* two registrations, and a lookup of the first id after the second
C2_Witness ==
    /\ Cardinality(issued) = 2
    /\ \E r \in Reqs : req[r].program_id = 1 /\ elf[r] # "none" /\ pc[r] = "done"
    /\ \E r \in Reqs : req[r].program_id = 2 /\ elf[r] # "none"

IndependentVerify(resp) ==
    LET p == HexDecode(StripPrefix0x(resp.proof))
        v == HexDecode(StripPrefix0x(resp.public_values))
        k == HexDecode(StripPrefix0x(resp.vk_hash))
    IN  /\ p.ok /\ v.ok /\ k.ok
        /\ GrothVerify(k.bytes, v.bytes, p.bytes)

\* C8: every response attest returns for a request with verify_locally = true
\* passes the independent verification of its (proof, public_values, vk_hash).
C8_ProofSelfConsistent ==
    \A r \in Reqs :
        (out[r].kind = "response" /\ req[r].verify_locally)
        => IndependentVerify(AttestResponse(out[r]))

\* a verified response was returned, and an unverified one that does not pass
C8_Witness ==
    /\ \E r \in Reqs : out[r].kind = "response" /\ req[r].verify_locally
    /\ \E r \in Reqs : /\ out[r].kind = "response"
                       /\ ~req[r].verify_locally
                       /\ ~IndependentVerify(AttestResponse(out[r]))

C10_ReadNotBlockedByWrite ==
    \A r, w \in Reqs :
        (/\ pc[w] = "setup"
         /\ pc[r] = "lock"
         /\ req[r].program_id # req[w].program_id
         /\ req[r].program_id \in DOMAIN cache)
        => ENABLED AttestKeys(r)

\* a pair that one finished run of prover.setup on the binary has returned
CompletePair(kp, bin) ==
    /\ kp.pk = <<"pk", bin>>
    /\ kp.vk = <<"vk", bin>>
    /\ kp.gen \in 1..setupCalls

\* C11: whatever became of the requests (abandoned by the caller, failed in
\* key derivation, in proving or in local verification), every entry of the
\* key cache is a completely derived pair for the binary registered under
\* its program_id, and the keys a request holds are such a pair.
C11_NoPartialKeyPair ==
    /\ \A id \in DOMAIN cache :
          id \in DOMAIN store /\ CompletePair(cache[id], store[id])
    /\ \A r \in Reqs :
          keys[r] # NoKeys => CompletePair(keys[r], elf[r])

\* a request failed in key derivation, an abandoned one failed later, and
\* the cache holds an entry
C11_Witness ==
    /\ \E r \in Reqs : out[r] = Panic("setup failed")
    /\ \E r \in abandoned : pc[r] = "failed" /\ keys[r] # NoKeys
    /\ cache # <<>>

\* C12: every register call that succeeds stores its binary under an id no
\* earlier call has returned, also when the binary is one registered before,
\* and leaves every earlier registration as it was; no id was ever returned
\* for two registrations.
C12_DistinctProgramIds ==
    [][issued' # issued \/ store' # store =>
          \E id \in (DOMAIN store') \ (DOMAIN store) :
              /\ \A p \in issued : p[1] # id
              /\ issued' = issued \cup {<<id, store'[id]>>}
              /\ DOMAIN store' = (DOMAIN store) \cup {id}
              /\ \A i \in DOMAIN store : store'[i] = store[i]
              /\ Cardinality(issued') = Cardinality(issued) + 1]_vars

\* the same binary registered twice, under two ids, both stored
C12_Witness ==
    \E p, q \in issued :
        /\ p[1] # q[1] /\ p[2] = q[2]
        /\ store[p[1]] = p[2] /\ store[q[1]] = q[2]

MalformedEnvelope(reply) ==
    reply.kind = "json" /\ ~reply.error /\ ~IsStr(reply.result)

\* C5: when the RPC endpoint could not be reached, or answered with
\* something that is no JSON-RPC reply (no JSON, or neither an error member
\* nor a string result), verify_on_chain returns an error and not a boolean.
C5_TransportFailureIsError ==
    (vpc = "returned" /\ vreq # NoRequest
        /\ (vreply.kind \in {"unreachable", "not json"} \/ MalformedEnvelope(vreply)))
    => vres.kind = "err"

\* a string of an even number of hex digits, with or without a leading 0x
ValidHex(str) ==
    LET digits == IF Len(str) >= 2 /\ SubSeq(str, 1, 2) = <<"0", "x">>
                  THEN SubSeq(str, 3, Len(str)) ELSE str
    IN  /\ Len(digits) % 2 = 0
        /\ \A i \in 1..Len(digits) :
              \E j \in 1..16 : digits[i] \in {HexDigits[j], HexDigitsUpper[j]}

\* the number of bytes a valid hex string stands for
HexByteCount(str) ==
    IF Len(str) >= 2 /\ SubSeq(str, 1, 2) = <<"0", "x">>
    THEN (Len(str) - 2) \div 2 ELSE Len(str) \div 2

\* C15: a call whose proof, public values or vk hash is no valid hex has
\* returned the hex decoding error, and a call whose three arguments are
\* valid hex but whose vk hash is not 32 bytes long has returned the length
\* error; in both cases nothing was posted, no reply was read and no boolean
\* was returned.  A call with three valid arguments and a 32-byte vk hash
\* posts its request.
C15_MalformedArguments ==
    vpc # "idle" =>
        LET hexOk == /\ ValidHex(vargs.proof)
                     /\ ValidHex(vargs.public_values)
                     /\ ValidHex(vargs.vk_hash)
            lenOk == HexByteCount(vargs.vk_hash) = 32
        IN  /\ ~hexOk => vres = Err("hex decode error")
            /\ (hexOk /\ ~lenOk) => vres = Err("VK hash must be 32 bytes")
            /\ ~(hexOk /\ lenOk) =>
                  /\ vpc = "returned"
                  /\ vreq = NoRequest
                  /\ vreply = NoReply
                  /\ txCount = 0
            /\ (hexOk /\ lenOk) => vreq # NoRequest

\* a call with a vk hash of 33 bytes has returned the length error
C15_Witness ==
    /\ vpc = "returned"
    /\ ValidHex(vargs.vk_hash) /\ HexByteCount(vargs.vk_hash) = 33
    /\ vres = Err("VK hash must be 32 bytes")

\* C6: the request verify_on_chain posts is an eth_call and no transaction is
\* ever mined for it; a reply with an error member gives Ok(false), a reply
\* with a string result and no error member gives Ok(true), whatever the
\* returned data are.
C6_EthCallReplyMapping ==
    /\ vreq # NoRequest => vreq.method = "eth_call"
    /\ txCount = 0
    /\ (vpc = "returned" /\ vreply.kind = "json") =>
          /\ vreply.error => vres = Ok(FALSE)
          /\ (~vreply.error /\ IsStr(vreply.result)) => vres = Ok(TRUE)

\* a reply whose returned data are the ABI word for false was mapped to true
C6_Witness ==
    vpc = "returned" /\ vreply = Json(FALSE, "0x00") /\ vres = Ok(TRUE)

\* C7: the (proof, public_values, vk_hash) of an attest result always decode
\* into an eth_call, and when the node runs that call against the deployed
\* verifier contract, verify_on_chain returns Ok(true), without a revert,
\* if the attester's prover.verify accepts the proof under the result's
\* verifying key, and Ok(false), on a revert, if it does not.
C7_OnChainAgreesWithLocal ==
    /\ (vpc # "idle" /\ vargs.from # NoOut) => vreq # NoRequest
    /\ (vpc = "returned" /\ vargs.from # NoOut /\ vreply.by = "contract")
       => /\ vres = Ok(ProverVerify(vargs.from.proof, vargs.from.vk))
          /\ vreply.error = ~ProverVerify(vargs.from.proof, vargs.from.vk)

\* a proof of an attest result that prover.verify accepts was run against
\* the contract and came back true
C7_Witness ==
    /\ vpc = "returned" /\ vargs.from # NoOut /\ vreply.by = "contract"
    /\ ProverVerify(vargs.from.proof, vargs.from.vk)
    /\ vres = Ok(TRUE)

(***************************************************************************)
(* Properties of create_tap_signature.                                     *)
(***************************************************************************)
\* the calls that returned headers
Signed == {i \in DOMAIN tapLog : tapLog[i].result.kind = "ok"}

\* the piece of a text that follows the piece label, "" when there is none
Field(text, label) ==
    IF \E k \in 1..(Len(text) - 1) : text[k] = label
    THEN text[(CHOOSE k \in 1..(Len(text) - 1) : text[k] = label) + 1]
    ELSE ""

\* the lines of a text: the runs of pieces between the "\n" pieces
RECURSIVE SplitLines(_)
SplitLines(text) ==
    IF \A k \in 1..Len(text) : text[k] # "\n"
    THEN <<text>>
    ELSE LET k == CHOOSE j \in 1..Len(text) :
                     text[j] = "\n" /\ \A m \in 1..(j - 1) : text[m] # "\n"
         IN  <<SubSeq(text, 1, k - 1)>> \o SplitLines(SubSeq(text, k + 1, Len(text)))

\* C16: every call that returned headers drew 32 bytes from the generator
\* for itself, its Signature-Input carries the nonce made of them, and no
\* two calls returned the same nonce.
C16_NonceUniqueness ==
    /\ rng = Cardinality(Signed)
    /\ \A i \in Signed :
          /\ Field(tapLog[i].result.headers.signature_input, "\";nonce=\"") # ""
          /\ Field(tapLog[i].result.headers.signature_input, "\";nonce=\"")
                = tapLog[i].result.nonce
    /\ \A i, j \in Signed :
          i # j => Field(tapLog[i].result.headers.signature_input, "\";nonce=\"")
                   # Field(tapLog[j].result.headers.signature_input, "\";nonce=\"")

\* two calls for the same configuration and target within one second
C16_Witness ==
    /\ Cardinality(Signed) = 2
    /\ tapLog[1].config = tapLog[2].config
    /\ tapLog[1].now = tapLog[2].now

\* C17: the Signature header of a call is not what signing the same base
\* string with any other private key gives (so it cannot be made without
\* the key).
C17_SignatureDependsOnKey ==
    \A i \in Signed :
        \A k \in PrivateKeys \ {tapLog[i].config.private_key_pem} :
            tapLog[i].result.headers.signature
              # SignatureHeader(Base64Encode(
                    SignMessage(k, tapLog[i].result.signature_base)))

\* C18: the signed base string has three lines, in this order: the
\* @authority component with the call's authority, the @path component with
\* the call's path, and the @signature-params line; the Signature-Input
\* header is that last line without its label.
C18_BaseStringAndSignatureInput ==
    \A i \in Signed :
        LET lines == SplitLines(tapLog[i].result.signature_base) IN
        /\ Len(lines) = 3
        /\ lines[1] = <<"\"@authority\": ", tapLog[i].authority>>
        /\ lines[2] = <<"\"@path\": ", tapLog[i].path>>
        /\ lines[3] = <<"\"@signature-params\": ">>
                      \o tapLog[i].result.headers.signature_input

\* a call with the payer tag returned headers that name the tag and the
\* configured algorithm
C18_Witness ==
    \E i \in Signed :
        /\ tapLog[i].config.tag = "agent-payer-auth"
        /\ Field(tapLog[i].result.headers.signature_input, "\";tag=\"")
              = "agent-payer-auth"
        /\ Field(tapLog[i].result.headers.signature_input, "\";alg=\"")
              = tapLog[i].config.algorithm

\* C19: every call that returned headers has created = the clock's reading
\* at the call and expires = created + 480, in what it signed and in its
\* Signature-Input header.
C19_ExpiresAfter480 ==
    \A i \in Signed :
        LET r == tapLog[i].result IN
        /\ r.created = tapLog[i].now
        /\ r.expires = r.created + 480
        /\ Field(r.headers.signature_input,
                 "sig2=(\"@authority\" \"@path\");created=") = ToString(tapLog[i].now)
        /\ Field(r.headers.signature_input, ";expires=")
              = ToString(tapLog[i].now + 480)
        /\ Field(r.signature_base, ";expires=") = ToString(tapLog[i].now + 480)

\* two calls a second apart, each with its own expiry
C19_Witness ==
    /\ Cardinality(Signed) = 2
    /\ tapLog[2].now = tapLog[1].now + 1
    /\ tapLog[2].result.expires = tapLog[1].result.expires + 1

\* the algorithms the module says it supports (tap_signature.rs:151), and
\* the private keys that are PEM key material
ImplementedAlgorithms == {"Ed25519", "PS256"}
WellFormedKey(pem) == pem # "not a key"

\* C20: a call whose configured algorithm is not implemented returns the
\* error UnsupportedAlgorithm, a call whose private key is malformed returns
\* the error KeyParseError, and neither returns headers.
C20_SigningFailures ==
    \A i \in DOMAIN tapLog :
        /\ tapLog[i].config.algorithm \notin ImplementedAlgorithms
              => tapLog[i].result.kind = "err"
        /\ ~WellFormedKey(tapLog[i].config.private_key_pem)
              => tapLog[i].result.kind = "err"

(***************************************************************************)
(* Properties of request_with_signature.                                   *)
(***************************************************************************)
\* C21: a request with a TAP configuration whose signature could not be
\* made is sent all the same, with no signature-input, signature or key-id
\* header, and its log line is the warning, not the line of a signed call;
\* no request ever carries only some of the three headers.
C21_SigningFailureSendsUnsigned ==
    \A i \in DOMAIN httpLog :
        LET c == httpLog[i] IN
        /\ (/\ c.config # NoTapConfig /\ c.now < 0
            /\ ParseUrlComponents(c.url).ok /\ SupportedMethod(c.method))
           => /\ c.outcome.sent
              /\ DOMAIN c.outcome.headers = {}
              /\ c.outcome.log = <<"[TAP WARN] Failed to create signature">>
              /\ c.outcome.log # <<"[TAP] Added signature headers to request">>
              /\ c.outcome.result \in {"Ok", "Err: HTTP request failed"}
        /\ DOMAIN c.outcome.headers \in {{}, {"signature_input", "signature", "key_id"}}

\* one request went out unsigned after a signing failure, one went out
\* signed
C21_Witness ==
    /\ \E i \in DOMAIN httpLog :
          /\ httpLog[i].outcome.signing = "err"
          /\ httpLog[i].outcome.sent
          /\ httpLog[i].outcome.result = "Ok"
    /\ \E i \in DOMAIN httpLog :
          /\ httpLog[i].outcome.signing = "ok"
          /\ DOMAIN httpLog[i].outcome.headers # {}

(***************************************************************************)
(* Properties of the guest program and of Agent B's server.                *)
(***************************************************************************)
\* C22: two executions of the guest on the same input bytes have committed
\* the same public values, whatever the clock read, whatever had been
\* executed before.
C22_GuestDeterminism ==
    \A i, j \in DOMAIN guestLog :
        guestLog[i].input = guestLog[j].input
        => guestLog[i].committed = guestLog[j].committed

\* the same input executed twice, at two times, and a booking among the
\* executions
C22_Witness ==
    /\ Len(guestLog) >= 2
    /\ guestLog[1].input = guestLog[2].input
    /\ guestLog[1].now # guestLog[2].now
    /\ FromBincode(guestLog[1].input).call = "BookFlight"

\* C23: the result the server returned for a /price or /book request is the
\* result the guest commits for the same call.
C23_NativeEqualsSandboxed ==
    \A i \in DOMAIN serveLog :
        Bincode(serveLog[i].served)
          = GuestMain(Bincode(serveLog[i].call), tclock, rng, Len(guestLog))

(***************************************************************************)
(* Properties of the redactions.                                           *)
(***************************************************************************)
\* C24: a redaction call repeated with the same path, or the same rule
\* list, right after the first leaves the document as the first left it;
\* so does any call whose path does not exist.
C24_RedactionIdempotence ==
    \A i \in 1..(Len(redactLog) - 1) :
        (redactLog[i].call = redactLog[i + 1].call /\ redactLog[i].arg = redactLog[i + 1].arg)
        => redactLog[i + 1].after = redactLog[i].after

\* a call that masked a value, made a second time
C24_Witness ==
    /\ Len(redactLog) = 2
    /\ redactLog[1].call = redactLog[2].call
    /\ redactLog[1].arg = redactLog[2].arg
    /\ redactLog[1].after # redactLog[1].before

Missing == [t |-> "missing"]

\* the value at a sequence of keys, each an object key of the value before
RECURSIVE Lookup(_, _)
Lookup(value, ks) ==
    IF ks = <<>> THEN value
    ELSE IF value.t # "object" THEN Missing
    ELSE IF ks[1] \notin DOMAIN value.m THEN Missing
    ELSE Lookup(value.m[ks[1]], Tail(ks))

IsPrefix(p, q) == Len(p) <= Len(q) /\ SubSeq(q, 1, Len(p)) = p

\* every sequence of at most four keys
KeyPaths ==
    UNION {[1..n -> Keys \cup {<<>>, <<"c">>}] : n \in 0..4}

\* after is before with the value at keys masked and nothing else changed,
\* or before itself when there is no value at keys
OnlyMasks(before, after, ks) ==
    IF Lookup(before, ks) = Missing \/ ks = <<>> THEN after = before
    ELSE /\ Lookup(after, ks) = Masked
         /\ \A q \in KeyPaths :
               IF IsPrefix(q, ks) /\ q # ks
               THEN /\ Lookup(after, q).t = "object"
                    /\ DOMAIN Lookup(after, q).m = DOMAIN Lookup(before, q).m
               ELSE IsPrefix(ks, q) \/ Lookup(after, q) = Lookup(before, q)

\* C25: redact_at_path masks the value at its path when every component is
\* an object key, and changes nothing else; it changes nothing at all when
\* a component is missing or an intermediate value is no object.
C25_RedactionFrame ==
    \A i \in DOMAIN redactLog :
        redactLog[i].call = "redact_at_path"
        => OnlyMasks(redactLog[i].before, redactLog[i].after, Split(redactLog[i].arg))

\* a nested value masked next to a field that stays, and a call on a path
\* through a value that is no object
C25_Witness ==
    /\ Len(redactLog) = 2
    /\ redactLog[1].call = "redact_at_path"
    /\ redactLog[1].arg = <<"a", ".", "b">>
    /\ Lookup(redactLog[1].before, <<(<<"a">>), (<<"a">>)>>) = John
    /\ redactLog[1].after # redactLog[1].before
    /\ redactLog[2].call = "redact_at_path"
    /\ redactLog[2].arg = <<"a", ".", "b", ".", "a">>

(***************************************************************************)
(* Further properties of the attester service.                             *)
(***************************************************************************)
\* C26: no step replaces or removes an entry of the key cache, and every
\* request that holds keys holds the one pair the cache has for its
\* program_id.
C26_OneKeyPairNeverReplaced ==
    [][/\ \A id \in DOMAIN cache : id \in DOMAIN cache' /\ cache'[id] = cache[id]
       /\ \A r \in Reqs :
             keys'[r] # NoKeys => keys'[r] = cache'[req'[r].program_id]]_vars

\* two entries, the first derived before the second, a request served from
\* each, and a registration and attest requests after the first insert
C26_Witness ==
    /\ DOMAIN cache = {1, 2}
    /\ cache[1].gen # cache[2].gen
    /\ \A r \in Reqs : pc[r] = "done"
    /\ storeReads = MaxAttests

\* the number of prover.setup runs for a program id
SetupRuns(id) == Cardinality({i \in DOMAIN setupLog : setupLog[i] = id})

\* C28: prover.setup has run at most once for every program_id, and a
\* request that asked for keys while another was deriving them holds, once
\* past the key step with keys, the pair of that one derivation.
C28_SetupOncePerProgram ==
    /\ \A id \in Ids : SetupRuns(id) <= 1
    /\ \A id \in raced, r \in Reqs :
          (req[r].program_id = id /\ keys[r] # NoKeys)
          => id \in DOMAIN cache /\ keys[r] = cache[id]

\* two requests raced for one uncached program, one derivation was run and
\* both hold its pair
C28_Witness ==
    /\ raced # {}
    /\ \E id \in raced :
          /\ SetupRuns(id) = 1
          /\ id \in DOMAIN cache
          /\ \A r \in Reqs : req[r].program_id = id /\ keys[r] = cache[id]
                             /\ pc[r] = "done"

\* a request has its answer and its slot has not been taken back yet
Answered == \E r \in Reqs : pc[r] \in {"done", "failed"}

\* every request in flight is in proof generation
OnlyProving == \A r \in Reqs : pc[r] \in {"idle", "prove", "done", "failed"}

\* C27: while a request is in proof generation (and nothing else but proof
\* generation is going on), a register call can be handled and an attest
\* request for a registered program can be taken up.
C27_ProvingDoesNotBlock ==
    \A p \in Reqs :
        (pc[p] = "prove" /\ OnlyProving)
        => /\ Len(store) < MaxPrograms => ENABLED RegisterOnWorker("elfA")
           /\ (storeReads < MaxAttests /\ ~Answered)
                 => ENABLED (\E r \in Reqs :
                                AttestFetch(r, 1, <<7>>, TRUE, PriceObject(7)))

\* C29: after any failed request the locks are usable: the key cache's lock
\* is not poisoned and no request has failed on taking it.
C29_FailureLeavesLocksUsable ==
    /\ ~cachePoisoned
    /\ \A r \in Reqs : out[r] # Panic("PoisonError")

(***************************************************************************)
(* Properties of the way of the input bytes.                               *)
(***************************************************************************)
\* C30: the bytes read back from the JSON array of a byte string are that
\* byte string, and what attest writes to the guest's input channel is the
\* request's input_bytes, which are the bytes the producer sent.
C30_InputBytesVerbatim ==
    \A i \in DOMAIN inputLog :
        /\ inputLog[i].back = [some |-> TRUE, bytes |-> inputLog[i].produced]
        /\ inputLog[i].decoded /\ inputLog[i].payload.ok
        /\ inputLog[i].stdin = <<inputLog[i].payload.bytes>>
        /\ inputLog[i].payload.bytes = inputLog[i].produced

\* an input of full length with a zero byte and a byte above 127
C30_Witness ==
    \E i \in DOMAIN inputLog :
        /\ Len(inputLog[i].produced) = MaxInputLen
        /\ inputLog[i].produced[1] = 0
        /\ inputLog[i].produced[2] = 255
        /\ inputLog[i].stdin # <<>>

====
